---- MODULE Spec2Model ----
(***************************************************************************)
(* Kaos_AugmentRequirements.js: tag matching, requirement checking and the *)
(* install / remove life cycle of augments on one independent host item.   *)
(*                                                                         *)
(* Strings that the code inspects character by character (tags, grants,    *)
(* requirements, patterns) are sequences of one-character strings.         *)
(* Strings the code only stores and hands on (rejection strings, the       *)
(* entries of augmentSlotItems) are TLA+ strings.                          *)
(***************************************************************************)
EXTENDS Integers, Sequences, FiniteSets, TLC

VARIABLES
    dataItems,          \* $dataItems: id -> augment item of the database
    tags,               \* item.tags of the host item
    augmentSlotItems,   \* item.augmentSlotItems of the host item
    items,              \* $gameParty._items: id -> number of units held
    rejection,          \* SceneManager._scene._augmentRejectionWindow
    lastCall,           \* the last call made on the host and how it ended
    args,               \* arguments of a call of a pure function
    ret                 \* what the pure function returned

vars == <<dataItems, tags, augmentSlotItems, items, rejection, lastCall, args, ret>>

(***************************************************************************)
(* Bounds of the model.                                                    *)
(***************************************************************************)
MaxPatLen == 3       \* longest pattern handed to the tag matcher
MaxListChars == 3    \* characters in a candidate list, all entries together
MaxCandidates == 2   \* entries in a candidate list
MaxReqs == 2         \* entries of augmentRequirements in a requirement check
MaxTags == 2         \* entries of item.tags in a requirement check
NumSlots == 2        \* augment slots of the host item
MaxItems == 1        \* units of one augment the party holds at most

(***************************************************************************)
(* JavaScript strings.                                                     *)
(***************************************************************************)
Range(s) == {s[i] : i \in 1..Len(s)}

\* String.prototype.toUpperCase on one character
UpperChar(c) ==
    CASE c = "a" -> "A"
      [] c = "b" -> "B"
      [] c = "g" -> "G"
      [] c = "u" -> "U"
      [] OTHER -> c

toUpperCase(s) == [i \in 1..Len(s) |-> UpperChar(s[i])]

\* the characters the regular expression class \w accepts
WordChars == {"a", "b", "g", "u", "A", "B", "G", "U", "Q", "R", "X", "Y", "_"}

\* String.prototype.indexOf for a one-character needle, 0-based, -1 if absent
indexOf(s, c) ==
    IF \E i \in 1..Len(s) : s[i] = c
    THEN (CHOOSE i \in 1..Len(s) : s[i] = c /\ \A j \in 1..(i-1) : s[j] # c) - 1
    ELSE -1

\* String.prototype.charAt, 0-based; "" outside the string
charAt(s, k) == IF k >= 0 /\ k < Len(s) THEN s[k+1] ELSE ""

\* String.prototype.replace(c, by): the first occurrence of c only
replace(s, c, by) ==
    LET k == indexOf(s, c) IN
    IF k < 0 THEN s
    ELSE SubSeq(s, 1, k) \o by \o SubSeq(s, k+2, Len(s))

(***************************************************************************)
(* Regular expressions as the matchers build them: a sequence of tokens,   *)
(* "^", "$", "\\w*" or a literal character, compiled with the "i" flag.    *)
(***************************************************************************)
RECURSIVE MatchFrom(_, _, _, _)
MatchFrom(regex, i, str, pos) ==
    IF i > Len(regex) THEN TRUE
    ELSE LET tok == regex[i] IN
         CASE tok = "^" -> pos = 0 /\ MatchFrom(regex, i+1, str, pos)
           [] tok = "$" -> pos = Len(str) /\ MatchFrom(regex, i+1, str, pos)
           [] tok = "\\w*" ->
                \E k \in 0..(Len(str) - pos) :
                    /\ \A j \in (pos+1)..(pos+k) : str[j] \in WordChars
                    /\ MatchFrom(regex, i+1, str, pos+k)
           [] OTHER ->
                /\ pos < Len(str)
                /\ UpperChar(str[pos+1]) = UpperChar(tok)
                /\ MatchFrom(regex, i+1, str, pos+1)

\* new RegExp(regex, "i").exec(str) !== null
RegExpExec(regex, str) == \E start \in 0..Len(str) : MatchFrom(regex, 1, str, start)

(***************************************************************************)
(* JavaScript values a matcher returns: a boolean or a number.             *)
(***************************************************************************)
JSBool(b) == [t |-> "boolean", b |-> b, n |-> 0]
JSNum(n) == [t |-> "number", b |-> FALSE, n |-> n]

(***************************************************************************)
(* BASE METHODS and UTILITIES: the tag matchers.                           *)
(***************************************************************************)
\* buildRegex without the anchors of the exact match
buildRegex_Unanchored(req) ==
    IF indexOf(req, "*") >= 0
    THEN IF charAt(req, 0) = "*"
         THEN replace(req, "*", <<>>) \o <<"$">>
         ELSE IF charAt(req, Len(req) - 1) = "*"
              THEN <<"^">> \o replace(req, "*", <<>>)
              ELSE <<"^">> \o replace(req, "*", <<"\\w*">>) \o <<"$">>
    ELSE req

\* buildRegex without the closing anchor of the middle wildcard
buildRegex_MiddleOpen(req) ==
    IF indexOf(req, "*") >= 0
    THEN IF charAt(req, 0) = "*"
         THEN replace(req, "*", <<>>) \o <<"$">>
         ELSE IF charAt(req, Len(req) - 1) = "*"
              THEN <<"^">> \o replace(req, "*", <<>>)
              ELSE <<"^">> \o replace(req, "*", <<"\\w*">>)
    ELSE <<"^">> \o req \o <<"$">>

\* the regular expression every matcher builds from its (uppercased) pattern
buildRegex(req) ==
    IF indexOf(req, "*") >= 0
    THEN IF charAt(req, 0) = "*"
         THEN replace(req, "*", <<>>) \o <<"$">>
         ELSE IF charAt(req, Len(req) - 1) = "*"
              THEN <<"^">> \o replace(req, "*", <<>>)
              ELSE <<"^">> \o replace(req, "*", <<"\\w*">>) \o <<"$">>
    ELSE <<"^">> \o req \o <<"$">>

\* the loop of baseHasReqs from index r on: true at the first entry that matches
RECURSIVE baseHasReqsFrom(_, _, _)
baseHasReqsFrom(req, reqs, r) ==
    IF r >= Len(reqs) THEN FALSE
    ELSE LET up == toUpperCase(req)
             currentReq == toUpperCase(reqs[r+1])
         IN IF RegExpExec(buildRegex(up), currentReq) THEN TRUE
            ELSE baseHasReqsFrom(up, reqs, r+1)

baseHasReqs(req, reqs) == baseHasReqsFrom(req, reqs, 0)

\* the loop of baseHasGrants from index g on
RECURSIVE baseHasGrantsFrom(_, _, _)
baseHasGrantsFrom(grant, grants, g) ==
    IF g >= Len(grants) THEN FALSE
    ELSE LET up == toUpperCase(grant)
             currentGrant == toUpperCase(grants[g+1])
         IN IF RegExpExec(buildRegex(up), currentGrant) THEN TRUE
            ELSE baseHasGrantsFrom(up, grants, g+1)

baseHasGrants(grant, grants) == baseHasGrantsFrom(grant, grants, 0)

\* hasTagFrom keeping the index of the first match
RECURSIVE hasTagFrom_First(_, _, _, _, _)
hasTagFrom_First(itemTags, tag, t, index, itemHasTag) ==
    IF t >= Len(itemTags) THEN <<index, itemHasTag>>
    ELSE LET up == toUpperCase(tag)
             currentTag == toUpperCase(itemTags[t+1])
         IN IF RegExpExec(buildRegex(up), currentTag)
            THEN hasTagFrom_First(itemTags, up, t+1, IF itemHasTag THEN index ELSE t, TRUE)
            ELSE hasTagFrom_First(itemTags, up, t+1, index, itemHasTag)

\* the loop of hasTag from index t on: every entry is scanned, a match
\* overwrites index; yields <<index, itemHasTag>>
RECURSIVE hasTagFrom(_, _, _, _, _)
hasTagFrom(itemTags, tag, t, index, itemHasTag) ==
    IF t >= Len(itemTags) THEN <<index, itemHasTag>>
    ELSE LET up == toUpperCase(tag)
             currentTag == toUpperCase(itemTags[t+1])
         IN IF RegExpExec(buildRegex(up), currentTag)
            THEN hasTagFrom(itemTags, up, t+1, t, TRUE)
            ELSE hasTagFrom(itemTags, up, t+1, index, itemHasTag)

\* Kaos.Augment.hasTag(item, tag, returnIndex), item given by its tags
hasTag(itemTags, tag, returnIndex) ==
    LET end == hasTagFrom(itemTags, tag, 0, 0, FALSE)
        index == end[1]
        itemHasTag == end[2]
    IN IF itemHasTag /\ returnIndex THEN JSNum(index) ELSE JSBool(itemHasTag)

\* the loop of hasGrant from index g on; yields <<index, itemHasGrant>>
RECURSIVE hasGrantFrom(_, _, _, _, _)
hasGrantFrom(grants, grant, g, index, itemHasGrant) ==
    IF g >= Len(grants) THEN <<index, itemHasGrant>>
    ELSE LET up == toUpperCase(grant)
             currentGrant == toUpperCase(grants[g+1])
         IN IF RegExpExec(buildRegex(up), currentGrant)
            THEN hasGrantFrom(grants, up, g+1, g, TRUE)
            ELSE hasGrantFrom(grants, up, g+1, index, itemHasGrant)

\* Kaos.Augment.hasGrant(item, grant, returnIndex), item given by its
\* augmentGrantedTags
hasGrant(grants, grant, returnIndex) ==
    LET end == hasGrantFrom(grants, grant, 0, 0, FALSE)
        index == end[1]
        itemHasGrant == end[2]
    IN IF itemHasGrant /\ returnIndex THEN JSNum(index) ELSE JSBool(itemHasGrant)

\* the loop of checkRequirements over item.tags from index t on
RECURSIVE requirementInTags(_, _, _, _)
requirementInTags(req, itemTags, t, okToInstall) ==
    IF t >= Len(itemTags) THEN okToInstall
    ELSE requirementInTags(req, itemTags, t+1,
                           IF req = itemTags[t+1] THEN TRUE ELSE okToInstall)

\* the loop of checkRequirements over the requirements from index r on
RECURSIVE checkRequirementsFrom(_, _, _)
checkRequirementsFrom(requirement, itemTags, r) ==
    IF r >= Len(requirement) THEN TRUE
    ELSE IF ~requirementInTags(requirement[r+1], itemTags, 0, FALSE) THEN FALSE
         ELSE checkRequirementsFrom(requirement, itemTags, r+1)

\* checkRequirements without the reset of okToInstall for each requirement
RECURSIVE checkRequirementsCarried(_, _, _, _)
checkRequirementsCarried(requirement, itemTags, r, okToInstall) ==
    IF r >= Len(requirement) THEN TRUE
    ELSE IF ~requirementInTags(requirement[r+1], itemTags, 0, okToInstall) THEN FALSE
         ELSE checkRequirementsCarried(requirement, itemTags, r+1, TRUE)

checkRequirements_NoReset(requirement, itemTags) ==
    checkRequirementsCarried(requirement, itemTags, 0, FALSE)

\* Kaos.Augment.checkRequirements(augment, item), by augment.augmentRequirements
\* and item.tags
checkRequirements(requirement, itemTags) ==
    IF Len(requirement) > 0 THEN checkRequirementsFrom(requirement, itemTags, 0)
    ELSE TRUE

(***************************************************************************)
(* The host item, the item database and the party inventory.               *)
(***************************************************************************)
Null == 0                       \* null / undefined where an item is expected
Augments == {1, 2}              \* ids of the augment items of $dataItems
SlotIds == 0..(NumSlots - 1)    \* slot ids start at 0
Gains == {0, 1}                 \* values of the gain argument

X == <<"X">>
Y == <<"Y">>
R == <<"R">>

\* databases after processNotetags: requirements and grants are uppercase words
DataItemsOptions ==
    {[id \in Augments |->
        IF id = 1
        THEN [id |-> 1, augmentRequirements |-> <<>>, augmentGrantedTags |-> grants,
              augmentRejectionString |-> "Rejected 1"]
        ELSE [id |-> 2, augmentRequirements |-> <<R>>, augmentGrantedTags |-> <<X>>,
              augmentRejectionString |-> "Rejected 2"]] :
     grants \in {<<X, Y>>, <<Y, X>>}}

\* tags the host item declares itself
HostTagsOptions == {<<>>, <<R>>}

\* an entry of augmentSlotItems that names an item of the database
SlotEntry(id) == CASE id = 1 -> "item 1" [] id = 2 -> "item 2"

\* str.match(/\d+/) on an entry of augmentSlotItems, as the number it denotes
matchDigits(str) == CASE str = "item 1" -> 1 [] str = "item 2" -> 2

\* ItemManager.augmentInSlot: the item in the slot, null for 'none'
augmentInSlot(slotItems, slotId) ==
    IF slotItems[slotId + 1] = "none" THEN Null ELSE matchDigits(slotItems[slotId + 1])

\* Game_Party.gainItem: the count never drops below 0; no item, no change
gainItem(partyItems, item, amount) ==
    IF item = Null THEN partyItems
    ELSE [partyItems EXCEPT ![item] = IF @ + amount < 0 THEN 0 ELSE @ + amount]

\* Game_Party.loseItem
loseItem(partyItems, item, amount) == gainItem(partyItems, item, 0 - amount)

\* ItemManager.installAugmentToSlot of the augment plugin: records the occupant
setSlot(slotItems, effectItem, slotId) ==
    [slotItems EXCEPT ![slotId + 1] = IF effectItem = Null THEN "none" ELSE SlotEntry(effectItem)]

\* Window_AugmentRejection.setItem, then setText
setItem(window, item) ==
    LET text == IF item # Null THEN dataItems[item].augmentRejectionString ELSE ""
    IN IF window.text # text THEN [window EXCEPT !.text = text] ELSE window

\* Kaos.Augment.showRejection
showRejection(window, augment) == [setItem(window, augment) EXCEPT !.visible = TRUE]

\* Array.prototype.indexOf on a list of tags, 0-based, -1 if absent
indexOfTag(itemTags, tag) ==
    IF \E i \in 1..Len(itemTags) : itemTags[i] = tag
    THEN (CHOOSE i \in 1..Len(itemTags) :
              itemTags[i] = tag /\ \A j \in 1..(i-1) : itemTags[j] # tag) - 1
    ELSE -1

\* x evaluated once and handed to F as a value
With(x, F(_)) == CHOOSE r \in {F(v) : v \in {x}} : TRUE

\* removeTag splicing without looking at the index: splice(-1, 1) takes the
\* last tag away
removeTag_Unchecked(itemTags, tag) ==
    With(indexOfTag(itemTags, toUpperCase(tag)), LAMBDA index :
        IF index > -1
        THEN SubSeq(itemTags, 1, index) \o SubSeq(itemTags, index + 2, Len(itemTags))
        ELSE SubSeq(itemTags, 1, Len(itemTags) - 1))

\* Kaos.Augment.removeTag
removeTag(itemTags, tag) ==
    With(indexOfTag(itemTags, toUpperCase(tag)), LAMBDA index :
        IF index > -1
        THEN SubSeq(itemTags, 1, index) \o SubSeq(itemTags, index + 2, Len(itemTags))
        ELSE itemTags)

\* Kaos.Augment.addTag
addTag(itemTags, tag) == Append(removeTag(itemTags, toUpperCase(tag)), toUpperCase(tag))

AugPrefix == <<"a", "u", "g", "_">>

\* the loop of addGrantedTags from index g on
RECURSIVE addGrantedTagsFrom(_, _, _)
addGrantedTagsFrom(itemTags, grants, g) ==
    IF g >= Len(grants) THEN itemTags
    ELSE With(addTag(itemTags, AugPrefix \o grants[g+1]), LAMBDA pushed :
             addGrantedTagsFrom(pushed, grants, g+1))

\* Kaos.Augment.addGrantedTags
addGrantedTags(itemTags, augment) ==
    addGrantedTagsFrom(itemTags, dataItems[augment].augmentGrantedTags, 0)

\* the inner loop of removeGrantedTags over the slots from index a on: the
\* flag removeTag is cleared when another slot holds an augment of another id
\* that has the grant
RECURSIVE scanOtherSlots(_, _, _, _, _)
scanOtherSlots(slotItems, augment, grant, a, flag) ==
    IF a >= Len(slotItems) THEN flag
    ELSE LET otherAugment == slotItems[a+1] IN
         IF otherAugment # "none" /\ matchDigits(otherAugment) # augment
         THEN With(hasGrant(dataItems[matchDigits(otherAugment)].augmentGrantedTags,
                            grant, FALSE).b,
                   LAMBDA granting :
                       scanOtherSlots(slotItems, augment, grant, a+1,
                                      IF granting THEN FALSE ELSE flag))
         ELSE scanOtherSlots(slotItems, augment, grant, a+1, flag)

\* the outer loop of removeGrantedTags from index g on; removeTag is set once
\* before the loop and carried from grant to grant
RECURSIVE removeGrantedTagsFrom(_, _, _, _, _)
removeGrantedTagsFrom(itemTags, slotItems, augment, g, flag) ==
    IF g >= Len(dataItems[augment].augmentGrantedTags) THEN itemTags
    ELSE With(dataItems[augment].augmentGrantedTags[g+1], LAMBDA grant :
         With(scanOtherSlots(slotItems, augment, grant, 0, flag), LAMBDA flag2 :
         With(IF flag2 THEN removeTag(itemTags, AugPrefix \o grant) ELSE itemTags,
              LAMBDA rest :
                  removeGrantedTagsFrom(rest, slotItems, augment, g+1, flag2))))

\* Kaos.Augment.removeGrantedTags(item, augment); reading
\* augment.augmentGrantedTags of null raises a TypeError
removeGrantedTags(host, augment) ==
    IF augment = Null THEN [host EXCEPT !.error = "TypeError"]
    ELSE [host EXCEPT !.tags =
             removeGrantedTagsFrom(host.tags, host.augmentSlotItems, augment, 0, TRUE)]

\* ItemManager.removeAugmentFromSlot: the host afterwards and the augment
\* returned
ItemManager_removeAugmentFromSlot(host, slotId) ==
    With(removeGrantedTags(host, augmentInSlot(host.augmentSlotItems, slotId)),
         LAMBDA after :
             IF after.error # "none" THEN [host |-> after, augment |-> Null]
             ELSE [host |-> after,
                   augment |-> augmentInSlot(host.augmentSlotItems, slotId)])

\* the block of applyAugmentEffects that runs when the install went through
\* the checks or there is no effectItem: the occupant is removed and returned
\* to the party, the slot is set, the effectItem is taken from the party
replaceOccupant(host, effectItem, slotId, gain) ==
    With(IF host.augmentSlotItems[slotId + 1] # "none"
         THEN ItemManager_removeAugmentFromSlot(host, slotId)
         ELSE [host |-> host, augment |-> Null],
         LAMBDA removed :
             IF removed.host.error # "none" THEN removed.host
             ELSE [removed.host EXCEPT
                      !.augmentSlotItems = setSlot(@, effectItem, slotId),
                      !.items = loseItem(gainItem(@, removed.augment, gain),
                                         effectItem, gain)])

\* applyAugmentEffects granting the tags before looking at the requirements
applyAugmentEffects_UngatedGrant(host, effectItem, slotId, gain) ==
    With(IF effectItem # Null
         THEN checkRequirements(dataItems[effectItem].augmentRequirements, host.tags)
         ELSE FALSE,
         LAMBDA okToInstall :
    With(IF effectItem # Null
         THEN [host EXCEPT !.tags = addGrantedTags(host.tags, effectItem)]
         ELSE host,
         LAMBDA granted :
    With(IF okToInstall \/ effectItem = Null
         THEN replaceOccupant(granted, effectItem, slotId, gain)
         ELSE granted,
         LAMBDA changed :
             IF changed.error # "none" \/ okToInstall THEN changed
             ELSE [changed EXCEPT !.rejection = showRejection(@, effectItem)])))

\* ItemManager.applyAugmentEffects(item, effectItem, slotId, gain)
applyAugmentEffects(host, effectItem, slotId, gain) ==
    With(IF effectItem # Null
         THEN checkRequirements(dataItems[effectItem].augmentRequirements, host.tags)
         ELSE FALSE,
         LAMBDA okToInstall :
    With(IF effectItem # Null /\ okToInstall
         THEN [host EXCEPT !.tags = addGrantedTags(host.tags, effectItem)]
         ELSE host,
         LAMBDA granted :
    With(IF okToInstall \/ effectItem = Null
         THEN replaceOccupant(granted, effectItem, slotId, gain)
         ELSE granted,
         LAMBDA changed :
             IF changed.error # "none" \/ okToInstall THEN changed
             ELSE [changed EXCEPT !.rejection = showRejection(@, effectItem)])))

\* Kaos.Augment.installAugmentToSlot(item, effectItem, slotId, gain)
Kaos_installAugmentToSlot(host, effectItem, slotId, gain) ==
    With(applyAugmentEffects(host, effectItem, slotId, gain), LAMBDA applied :
        IF applied.error # "none" THEN applied
        ELSE [applied EXCEPT !.items = loseItem(@, effectItem, 1)])

\* Kaos.Augment.removeAugmentFromSlot(item, slotId, gain): the host afterwards
\* and the augment returned; gain || true is always true
Kaos_removeAugmentFromSlot(host, slotId) ==
    With(removeGrantedTags(host, augmentInSlot(host.augmentSlotItems, slotId)),
         LAMBDA first :
             IF first.error # "none" THEN [host |-> first, augment |-> Null]
             ELSE With(ItemManager_removeAugmentFromSlot(first, slotId),
                       LAMBDA removed :
                           IF removed.host.error # "none" THEN removed
                           ELSE [host |-> [removed.host EXCEPT
                                     !.items = gainItem(@, removed.augment, 1),
                                     !.augmentSlotItems = [@ EXCEPT ![slotId + 1] = "none"]],
                                 augment |-> removed.augment]))

(***************************************************************************)
(* The life cycle: calls made on the host item, one at a time.             *)
(***************************************************************************)
Host ==
    [tags |-> tags, augmentSlotItems |-> augmentSlotItems, items |-> items,
     rejection |-> rejection, error |-> "none"]

\* the party never holds more than MaxItems units of an augment
WithinItems(after) == \A a \in Augments : after.items[a] <= MaxItems

\* an uncaught error stops the game
Running == lastCall.error = "none"

Becomes(after) ==
    /\ tags' = after.tags
    /\ augmentSlotItems' = after.augmentSlotItems
    /\ items' = after.items
    /\ rejection' = after.rejection

Init ==
    /\ dataItems \in DataItemsOptions
    /\ tags \in HostTagsOptions
    /\ augmentSlotItems = [i \in 1..NumSlots |-> "none"]
    /\ items \in [Augments -> 0..MaxItems]
    /\ rejection = [visible |-> FALSE, text |-> "undefined"]
    /\ lastCall = [op |-> "none", effectItem |-> Null, slotId |-> 0,
                   error |-> "none", ret |-> Null]
    /\ args = <<>>
    /\ ret = [fn |-> "none", val |-> JSBool(FALSE)]

\* the augment scene or a script calls ItemManager.applyAugmentEffects
ApplyAugmentEffects(effectItem, slotId, gain) ==
    \E host \in {Host} : \E after \in {applyAugmentEffects(host, effectItem, slotId, gain)} :
    /\ Running
    /\ WithinItems(after)
    /\ Becomes(after)
    /\ lastCall' = [op |-> "applyAugmentEffects", effectItem |-> effectItem,
                    slotId |-> slotId, error |-> after.error, ret |-> Null]
    /\ UNCHANGED <<dataItems, args, ret>>

\* a script calls Kaos.Augment.installAugmentToSlot
InstallAugmentToSlot(effectItem, slotId, gain) ==
    \E host \in {Host} : \E after \in {Kaos_installAugmentToSlot(host, effectItem, slotId, gain)} :
    /\ Running
    /\ WithinItems(after)
    /\ Becomes(after)
    /\ lastCall' = [op |-> "installAugmentToSlot", effectItem |-> effectItem,
                    slotId |-> slotId, error |-> after.error, ret |-> Null]
    /\ UNCHANGED <<dataItems, args, ret>>

\* a script calls Kaos.Augment.removeAugmentFromSlot
RemoveAugmentFromSlot(slotId) ==
    \E host \in {Host} : \E after \in {Kaos_removeAugmentFromSlot(host, slotId)} :
    /\ Running
    /\ WithinItems(after.host)
    /\ Becomes(after.host)
    /\ lastCall' = [op |-> "removeAugmentFromSlot", effectItem |-> Null,
                    slotId |-> slotId, error |-> after.host.error, ret |-> after.augment]
    /\ UNCHANGED <<dataItems, args, ret>>

\* Scene_Item.prototype.onActionAugment hides the rejection window
OnActionAugment ==
    /\ Running
    /\ rejection' = [rejection EXCEPT !.visible = FALSE]
    /\ lastCall' = [op |-> "onActionAugment", effectItem |-> Null, slotId |-> 0,
                    error |-> "none", ret |-> Null]
    /\ UNCHANGED <<dataItems, tags, augmentSlotItems, items, args, ret>>

Next ==
    \/ \E effectItem \in Augments \cup {Null}, slotId \in SlotIds, gain \in Gains :
           ApplyAugmentEffects(effectItem, slotId, gain)
    \/ \E effectItem \in Augments, slotId \in SlotIds, gain \in Gains :
           InstallAugmentToSlot(effectItem, slotId, gain)
    \/ \E slotId \in SlotIds : RemoveAugmentFromSlot(slotId)
    \/ OnActionAugment

Spec == Init /\ [][Next]_vars

(***************************************************************************)
(* Properties of the life cycle.                                           *)
(***************************************************************************)
Namespaced(grant) == toUpperCase(AugPrefix \o grant)     \* AUG_ and the grant
GrantUniverse == {X, Y}

Occupied(slotId) == augmentSlotItems[slotId + 1] # "none"
Occupant(slotId) == matchDigits(augmentSlotItems[slotId + 1])
Grants(augment, grant) == grant \in Range(dataItems[augment].augmentGrantedTags)

RequirementsMet(augment) ==
    \A i \in 1..Len(dataItems[augment].augmentRequirements) :
        dataItems[augment].augmentRequirements[i] \in Range(tags)

\* a step that is an install attempt of effectItem into slotId
InstallStep(effectItem, slotId, gain) ==
    \/ ApplyAugmentEffects(effectItem, slotId, gain)
    \/ InstallAugmentToSlot(effectItem, slotId, gain)

\* C1: in every state, AUG_T is among the host's tags iff some occupied slot
\* of the host holds an augment whose augmentGrantedTags contains T.
C1_GrantedTagIffGranted ==
    \A grant \in GrantUniverse :
        (Namespaced(grant) \in Range(tags))
        <=> (\E slotId \in SlotIds : Occupied(slotId) /\ Grants(Occupant(slotId), grant))

\* C2: an install attempt of an augment one of whose requirements is not
\* among the host's tags leaves host.tags and every entry of
\* host.augmentSlotItems as they were, and the rejection window is shown
\* with the augment's augmentRejectionString.
C2_RejectedInstallUnchanged ==
    [][(/\ lastCall'.op \in {"applyAugmentEffects", "installAugmentToSlot"}
        /\ lastCall'.effectItem # Null
        /\ ~RequirementsMet(lastCall'.effectItem))
       => /\ tags' = tags
          /\ augmentSlotItems' = augmentSlotItems
          /\ rejection' = [visible |-> TRUE,
                           text |-> dataItems[lastCall'.effectItem].augmentRejectionString]]_vars

C2_Witness ==
    /\ lastCall.op = "applyAugmentEffects"
    /\ lastCall.effectItem = 2
    /\ lastCall.error = "none"
    /\ ~RequirementsMet(2)
    /\ augmentSlotItems[lastCall.slotId + 1] = "item 1"
    /\ rejection = [visible |-> TRUE, text |-> "Rejected 2"]

\* C4: after an install attempt whose requirements are met, into an empty or
\* an occupied slot, the slot holds the new augment and AUG_G is among the
\* host's tags for every granted tag G of the new augment.
C4_InstalledGrantsPresent ==
    [][\A effectItem \in Augments, slotId \in SlotIds, gain \in Gains :
          (InstallStep(effectItem, slotId, gain) /\ RequirementsMet(effectItem))
          => /\ augmentSlotItems'[slotId + 1] = SlotEntry(effectItem)
             /\ \A grant \in Range(dataItems[effectItem].augmentGrantedTags) :
                    Namespaced(grant) \in Range(tags')]_vars

\* C5: Kaos.Augment.removeAugmentFromSlot on a slot that holds 'none' raises
\* nothing, returns no augment and leaves the host's tags, its slots and the
\* party's items unchanged.
C5_EmptyRemovalNoOp ==
    [][\A slotId \in SlotIds :
          (RemoveAugmentFromSlot(slotId) /\ ~Occupied(slotId))
          => /\ lastCall'.error = "none"
             /\ lastCall'.ret = Null
             /\ UNCHANGED <<tags, augmentSlotItems, items>>]_vars

\* C6: in every state, for every empty slot and every augment whose
\* requirements are met, Kaos.Augment.installAugmentToSlot followed at once
\* by Kaos.Augment.removeAugmentFromSlot on that slot gives back the set of
\* tags the host had and leaves the slot empty.
C6_InstallRemoveRoundTrip ==
    \A effectItem \in Augments, slotId \in SlotIds :
        (Running /\ ~Occupied(slotId) /\ RequirementsMet(effectItem))
        => \A installed \in {Kaos_installAugmentToSlot(Host, effectItem, slotId, 0)} :
           \A removed \in {Kaos_removeAugmentFromSlot(installed, slotId)} :
               /\ removed.host.error = "none"
               /\ Range(removed.host.tags) = Range(tags)
               /\ removed.host.augmentSlotItems[slotId + 1] = "none"

\* units of an augment: those the party holds and those sitting in slots
SlotsHolding(augment) == {slotId \in SlotIds : augmentSlotItems[slotId + 1] = SlotEntry(augment)}
Units(augment) == items[augment] + Cardinality(SlotsHolding(augment))

\* C7: with the default gain, a call of Kaos.Augment.installAugmentToSlot
\* (of an augment the party holds) or of Kaos.Augment.removeAugmentFromSlot
\* leaves, for every augment, the units held plus the slots occupied as they
\* were.
C7_UnitsConserved ==
    [][\A effectItem \in Augments, slotId \in SlotIds :
          ((InstallAugmentToSlot(effectItem, slotId, 0) /\ items[effectItem] >= 1)
              \/ RemoveAugmentFromSlot(slotId))
          => \A augment \in Augments : Units(augment)' = Units(augment)]_vars

(***************************************************************************)
(* The pure functions, called on inputs drawn from bounded sets.           *)
(***************************************************************************)
PatChars == {"a", "B"}            \* letters of a pattern, besides the wildcard
CandChars == {"A", "b", "-"}      \* characters of a candidate; "-" is no \w

StringsOver(chars, n) == UNION {[1..k -> chars] : k \in 0..n}

StarCount(s) == Cardinality({i \in 1..Len(s) : s[i] = "*"})

\* patterns with at most one wildcard
Patterns == {p \in StringsOver(PatChars \cup {"*"}, MaxPatLen) : StarCount(p) <= 1}

\* candidate lists of at most k entries and at most budget characters in all
RECURSIVE ListsWithin(_, _)
ListsWithin(k, budget) ==
    IF k = 0 THEN {<<>>}
    ELSE {<<>>} \cup
         UNION {{<<s>> \o rest : rest \in ListsWithin(k-1, budget - Len(s))} :
                s \in StringsOver(CandChars, budget)}

CandidateLists == ListsWithin(MaxCandidates, MaxListChars)

NoItems == <<>>
NoRejection == [visible |-> FALSE, text |-> "undefined"]
NoCall == [op |-> "none", effectItem |-> Null, slotId |-> 0, error |-> "none", ret |-> Null]
NoRet == [fn |-> "none", val |-> JSBool(FALSE)]

IdleHost ==
    /\ dataItems = NoItems
    /\ tags = <<>>
    /\ augmentSlotItems = <<>>
    /\ items = NoItems
    /\ rejection = NoRejection
    /\ lastCall = NoCall

hostVars == <<dataItems, tags, augmentSlotItems, items, rejection, lastCall>>

MatchInit ==
    /\ IdleHost
    /\ args \in [req : Patterns, list : CandidateLists]
    /\ ret = NoRet

Call_baseHasReqs ==
    /\ ret = NoRet
    /\ ret' = [fn |-> "baseHasReqs", val |-> JSBool(baseHasReqs(args.req, args.list))]
    /\ UNCHANGED <<hostVars, args>>

Call_baseHasGrants ==
    /\ ret = NoRet
    /\ ret' = [fn |-> "baseHasGrants", val |-> JSBool(baseHasGrants(args.req, args.list))]
    /\ UNCHANGED <<hostVars, args>>

Call_hasTag(returnIndex) ==
    /\ ret = NoRet
    /\ ret' = [fn |-> IF returnIndex THEN "hasTagIndex" ELSE "hasTag",
               val |-> hasTag(args.list, args.req, returnIndex)]
    /\ UNCHANGED <<hostVars, args>>

Call_hasGrant(returnIndex) ==
    /\ ret = NoRet
    /\ ret' = [fn |-> IF returnIndex THEN "hasGrantIndex" ELSE "hasGrant",
               val |-> hasGrant(args.list, args.req, returnIndex)]
    /\ UNCHANGED <<hostVars, args>>

MatchNext ==
    \/ Call_baseHasReqs
    \/ Call_baseHasGrants
    \/ \E returnIndex \in BOOLEAN : Call_hasTag(returnIndex)
    \/ \E returnIndex \in BOOLEAN : Call_hasGrant(returnIndex)

MatchSpec == MatchInit /\ [][MatchNext]_vars

\* requirement and tag strings of a requirement check; the comparison is ==
ReqStrings == {<<"R">>, <<"Q">>, <<"r">>}

ReqInit ==
    /\ IdleHost
    /\ args \in [requirement : UNION {[1..k -> ReqStrings] : k \in 0..MaxReqs},
                 tags : UNION {[1..k -> ReqStrings] : k \in 0..MaxTags}]
    /\ ret = NoRet

Call_checkRequirements ==
    /\ ret = NoRet
    /\ ret' = [fn |-> "checkRequirements",
               val |-> JSBool(checkRequirements(args.requirement, args.tags))]
    /\ UNCHANGED <<hostVars, args>>

ReqNext == Call_checkRequirements

ReqSpec == ReqInit /\ [][ReqNext]_vars

(***************************************************************************)
(* Properties of the tag matchers.                                         *)
(***************************************************************************)
StartsWith(s, p) == Len(p) <= Len(s) /\ SubSeq(s, 1, Len(p)) = p
EndsWith(s, p) == Len(p) <= Len(s) /\ SubSeq(s, Len(s) - Len(p) + 1, Len(s)) = p

StarAt(p) == CHOOSE i \in 1..Len(p) : p[i] = "*"
IsExact(p) == StarCount(p) = 0
IsEdgeWildcard(p) == StarCount(p) = 1 /\ StarAt(p) \in {1, Len(p)}
IsMiddleWildcard(p) == StarCount(p) = 1 /\ StarAt(p) \notin {1, Len(p)}
BeforeStar(p) == SubSeq(p, 1, StarAt(p) - 1)
AfterStar(p) == SubSeq(p, StarAt(p) + 1, Len(p))

\* what an exact or edge-wildcard pattern asks of a candidate, both uppercased
EdgeSatisfies(c, p) ==
    IF IsExact(p) THEN c = p
    ELSE \/ StarAt(p) = 1 /\ EndsWith(c, AfterStar(p))
         \/ StarAt(p) = Len(p) /\ StartsWith(c, BeforeStar(p))

\* a middle-wildcard pattern read as "starts with A and ends with B"
MiddleOverlapping(c, p) == StartsWith(c, BeforeStar(p)) /\ EndsWith(c, AfterStar(p))

\* a middle-wildcard pattern read as "A, then word characters only, then B"
MiddleSatisfies(c, p) ==
    /\ Len(c) >= Len(BeforeStar(p)) + Len(AfterStar(p))
    /\ StartsWith(c, BeforeStar(p))
    /\ EndsWith(c, AfterStar(p))
    /\ \A j \in (Len(BeforeStar(p)) + 1)..(Len(c) - Len(AfterStar(p))) : c[j] \in WordChars

Satisfies(c, p) == IF IsMiddleWildcard(p) THEN MiddleSatisfies(c, p) ELSE EdgeSatisfies(c, p)

BooleanMatchers == {"baseHasReqs", "baseHasGrants", "hasTag"}
IndexMatchers == {"hasTagIndex", "hasGrantIndex"}

\* C8: for a pattern without wildcard, or with one wildcard at its start or
\* end, baseHasReqs, baseHasGrants and the boolean hasTag return true iff some
\* candidate, compared case-insensitively, equals the pattern (no wildcard),
\* ends with X (pattern *X) or starts with X (pattern X*); false on an empty
\* list or when no candidate does.
C8_EdgePatterns ==
    (ret.fn \in BooleanMatchers /\ (IsExact(args.req) \/ IsEdgeWildcard(args.req)))
    => ret.val = JSBool(\E i \in 1..Len(args.list) :
                           EdgeSatisfies(toUpperCase(args.list[i]), toUpperCase(args.req)))

C8_Witness ==
    /\ ret.fn = "baseHasReqs"
    /\ IsEdgeWildcard(args.req) /\ StarAt(args.req) = 1 /\ Len(args.req) = 2
    /\ Len(args.list) = 2
    /\ ~EndsWith(toUpperCase(args.list[1]), toUpperCase(AfterStar(args.req)))
    /\ args.list[2] # toUpperCase(args.list[2])
    /\ ret.val = JSBool(TRUE)

\* C9 as claimed: for a pattern A*B the matchers return true iff some
\* candidate starts with A and ends with B, also when the candidate is
\* shorter than A and B together.
C9_StartsAndEnds ==
    (ret.fn \in BooleanMatchers /\ IsMiddleWildcard(args.req))
    => ret.val = JSBool(\E i \in 1..Len(args.list) :
                           MiddleOverlapping(toUpperCase(args.list[i]), toUpperCase(args.req)))

\* C9 amended: for a pattern A*B the matchers return true iff some candidate
\* is at least as long as A and B together, starts with A, ends with B, and
\* has only word characters between the two, compared case-insensitively.
C9_PrefixWordsSuffix ==
    (ret.fn \in BooleanMatchers /\ IsMiddleWildcard(args.req))
    => ret.val = JSBool(\E i \in 1..Len(args.list) :
                           MiddleSatisfies(toUpperCase(args.list[i]), toUpperCase(args.req)))

C9_Witness ==
    /\ ret.fn = "hasTag"
    /\ IsMiddleWildcard(args.req)
    /\ Len(args.list) = 1 /\ Len(args.list[1]) = 3
    /\ ret.val = JSBool(TRUE)

Max(S) == CHOOSE x \in S : \A y \in S : y <= x

\* C10: hasTag(item, tag, true) and hasGrant(item, grant, true) return false
\* when no entry matches, and otherwise the 0-based index of the last
\* matching entry of the list.
C10_LastIndex ==
    ret.fn \in IndexMatchers
    => LET matching == {i \in 1..Len(args.list) :
                           Satisfies(toUpperCase(args.list[i]), toUpperCase(args.req))}
       IN IF matching = {} THEN ret.val = JSBool(FALSE)
          ELSE ret.val = JSNum(Max(matching) - 1)

C10_Witness ==
    /\ ret.fn = "hasTagIndex"
    /\ Len(args.req) > 0
    /\ Len(args.list) = 2
    /\ \A i \in 1..2 : Satisfies(toUpperCase(args.list[i]), toUpperCase(args.req))
    /\ ret.val = JSNum(1)

\* C3: checkRequirements returns true exactly when every entry of
\* augment.augmentRequirements equals some entry of item.tags (true for no
\* requirements), whatever the order of either list.
C3_Conjunctive ==
    ret.fn = "checkRequirements"
    => ret.val = JSBool(\A i \in 1..Len(args.requirement) :
                           \E j \in 1..Len(args.tags) : args.requirement[i] = args.tags[j])

C3_Witness ==
    /\ ret.fn = "checkRequirements"
    /\ Len(args.requirement) = 2
    /\ args.requirement[1] \in Range(args.tags)
    /\ args.requirement[2] \notin Range(args.tags)
    /\ ret.val = JSBool(FALSE)

(***************************************************************************)
(* processNotetags, the rejection string of one database object.  A note   *)
(* is a sequence of tokens: the opening of the notetag up to its blank,    *)
(* the closing bracket, a line break, and any other character.             *)
(***************************************************************************)
MaxNoteLen == 6

RejectOpen == "<Augment Rejection String: "
NoteTokens == {RejectOpen, ">", "\n", "a"}
Undefined == <<"undefined">>

\* String.prototype.split(/[\r\n]+/), from position k with the line collected
RECURSIVE splitFrom(_, _, _)
splitFrom(note, k, line) ==
    IF k > Len(note) THEN <<line>>
    ELSE IF note[k] = "\n"
         THEN IF k > 1 /\ note[k-1] = "\n"
              THEN splitFrom(note, k + 1, line)
              ELSE <<line>> \o splitFrom(note, k + 1, <<>>)
         ELSE splitFrom(note, k + 1, Append(line, note[k]))

split(note) == splitFrom(note, 1, <<>>)

\* line.match(rejectRegex): the leftmost opening and, .* being greedy, the
\* last closing bracket after it; the result is the null or the capture
rejectMatch(line) ==
    LET opens == {i \in 1..Len(line) : line[i] = RejectOpen}
        start == CHOOSE i \in opens : \A j \in opens : i <= j
        closes == {i \in 1..Len(line) : line[i] = ">" /\ i > start}
        end == CHOOSE i \in closes : \A j \in closes : j <= i
    IN IF opens = {} \/ closes = {} THEN [matched |-> FALSE, capture |-> <<>>]
       ELSE [matched |-> TRUE, capture |-> SubSeq(line, start + 1, end - 1)]

\* the loop over notelines, from line i
RECURSIVE processRejectFrom(_, _, _)
processRejectFrom(augmentRejectionString, notelines, i) ==
    IF i > Len(notelines) THEN augmentRejectionString
    ELSE With(rejectMatch(notelines[i]), LAMBDA lineMatch :
            processRejectFrom(IF lineMatch.matched
                              THEN augmentRejectionString \o lineMatch.capture
                              ELSE augmentRejectionString,
                              notelines, i + 1))

\* the body of processNotetags' third loop for one object
processNotetags(obj) ==
    [obj EXCEPT !.augmentRejectionString =
        processRejectFrom(IF @ = Undefined THEN <<>> ELSE @, split(obj.note), 1)]

Notes == UNION {[1..k -> NoteTokens] : k \in 0..MaxNoteLen}

NoteInit ==
    /\ IdleHost
    /\ args \in [note : Notes, augmentRejectionString : {Undefined}]
    /\ ret = NoRet

Call_processNotetags ==
    /\ ret = NoRet
    /\ ret' = [fn |-> "processNotetags", val |-> processNotetags(args)]
    /\ UNCHANGED <<hostVars, args>>

NoteNext == Call_processNotetags

NoteSpec == NoteInit /\ [][NoteNext]_vars

(***************************************************************************)
(* Properties of the rejection string.                                     *)
(***************************************************************************)
\* the texts of the declarations of a note, in the order of the note
RECURSIVE DeclarationsFrom(_, _)
DeclarationsFrom(notelines, i) ==
    IF i > Len(notelines) THEN <<>>
    ELSE (IF rejectMatch(notelines[i]).matched
          THEN <<rejectMatch(notelines[i]).capture>> ELSE <<>>)
         \o DeclarationsFrom(notelines, i + 1)

Declarations(note) == DeclarationsFrom(split(note), 1)

\* C11: after processNotetags the rejection string of an object is the text
\* of the last declaration of its note, and the empty string if the note has
\* no declaration.
C11_LastDeclarationWins ==
    ret.fn = "processNotetags" =>
        LET decls == Declarations(args.note)
        IN ret.val.augmentRejectionString =
              IF decls = <<>> THEN <<>> ELSE decls[Len(decls)]

(***************************************************************************)
(* The frame of installs and removals, and the rejection window.           *)
(***************************************************************************)
NamespacedGrants(augment) ==
    {Namespaced(dataItems[augment].augmentGrantedTags[g]) :
        g \in 1..Len(dataItems[augment].augmentGrantedTags)}

\* the tags AUG_G of the augment installed by the step and of the augment the
\* step takes out of slotId
TagsOfStep(effectItem, slotId) ==
    (IF effectItem # Null THEN NamespacedGrants(effectItem) ELSE {})
    \cup (IF Occupied(slotId) THEN NamespacedGrants(Occupant(slotId)) ELSE {})

Others(itemTags, touched) == SelectSeq(itemTags, LAMBDA t : t \notin touched)

\* C12: an install or a removal changes host.tags only in tags AUG_G with G
\* a granted tag of the augment installed or removed: the other tags stay,
\* in their order, and none is added; the slots other than slotId keep their
\* entries.
C12_Frame ==
    [][lastCall'.op \in {"applyAugmentEffects", "installAugmentToSlot",
                         "removeAugmentFromSlot"}
       => /\ Others(tags', TagsOfStep(lastCall'.effectItem, lastCall'.slotId))
             = Others(tags, TagsOfStep(lastCall'.effectItem, lastCall'.slotId))
          /\ \A slotId \in SlotIds \ {lastCall'.slotId} :
                 augmentSlotItems'[slotId + 1] = augmentSlotItems[slotId + 1]]_vars

\* augment 2 has been installed next to augment 1: AUG_X moved behind AUG_Y,
\* the host's own tag and AUG_Y kept their places
C12_Witness ==
    /\ lastCall.op = "installAugmentToSlot"
    /\ lastCall.effectItem = 2
    /\ lastCall.slotId = 1
    /\ lastCall.error = "none"
    /\ dataItems[1].augmentGrantedTags = <<X, Y>>
    /\ augmentSlotItems = <<"item 1", "item 2">>
    /\ tags = <<R, Namespaced(Y), Namespaced(X)>>

\* C13: applyAugmentEffects shows the rejection window only when an install
\* attempt of an augment fails the requirement check: a call that installs
\* and a call without an augment (effectItem null) leave the window as it
\* was; a window that is shown stays visible until onActionAugment hides it.
C13_ShownOnlyOnRejection ==
    [][/\ (/\ lastCall'.op = "applyAugmentEffects"
           /\ (lastCall'.effectItem = Null \/ RequirementsMet(lastCall'.effectItem)))
          => rejection' = rejection
       /\ (rejection.visible /\ lastCall'.op # "onActionAugment")
          => rejection'.visible]_vars

====
